---- MODULE Spec2Model ----
(***************************************************************************)
(* WebMotionDashboard (assets/js/dashboard.js): the tab controller, its    *)
(* panel renderer and the events it publishes, as a state machine.         *)
(*                                                                         *)
(* JavaScript objects are TLA+ records whose DOMAIN is the set of the      *)
(* fields the object carries, so that a missing field (undefined) and a    *)
(* shallow merge {...a, ...b} are modelled as the code computes them.      *)
(* The document is modelled by the two element lists the controller        *)
(* queries: the .tab-navigation__button elements and the .tab-content      *)
(* elements, each in document order.  An element id "tab-N" or             *)
(* "tab-panel-N" is kept as the number N it was built from.                *)
(***************************************************************************)
EXTENDS Integers, Sequences, FiniteSets, TLC

VARIABLES
    phase,        \* "loading" before DOMContentLoaded, "ready" after the constructor
    config,       \* this.config: tabs, contentRows, sectionRows
    tabButtons,   \* the .tab-navigation__button elements, in document order
    tabPanels,    \* the .tab-content elements, in document order
    published,    \* the events the last call dispatched on document, in order
    calls,        \* how many calls the page's scripts have made on the controller
    destroyed,    \* destroy() has been called
    input,        \* what the last step handled: <<"call", method>> or a user event
    bound,        \* how many times bindEvents() has attached its listeners
    focus,        \* document.activeElement
    open,         \* per overlay surface: whether it carries its --active class
    overflowHidden, \* document.body.style.overflow is 'hidden'
    pending,      \* per deferred focus() callback: how many setTimeout calls are due
    timers,       \* per bindStartTimerButton() run: its closure's isRunning, timerInterval, startTime
    label,        \* the textContent of the start-timer button
    now,          \* the wall clock, in whole seconds
    reloads       \* how many setTimeout calls of window.location.reload() are due

vars == <<phase, config, tabButtons, tabPanels, published, calls, destroyed,
          input, bound, focus, open, overflowHidden, pending,
          timers, label, now, reloads>>

\* the start-timer button, the clock and the scheduled reloads
session == <<timers, label, now, reloads>>

\* the state of the overlay surfaces and of the focus
ui == <<focus, open, overflowHidden, pending>>

----------------------------------------------------------------------------
(* Bounds *)

\* How many of the constructor's six tab descriptors the page is built with.
InitTabs == 2
\* Tab ids the callers use are 1..MaxId.
MaxId == 3
\* addTab is not called once this many descriptors or triggers exist.
MaxTabs == 3
\* The controller's methods are called at most this many times after loading.
MaxCalls == 3

----------------------------------------------------------------------------
(* JavaScript values *)

\* null, as returned by getActiveTabId and extractTabId
null == 0

Fields == {"id", "title", "country", "addressType"}

\* obj.f is not undefined
Has(obj, f) == f \in DOMAIN obj

\* { ...a, ...b }
Spread(a, b) ==
    [f \in (DOMAIN a) \cup (DOMAIN b) |-> IF f \in DOMAIN b THEN b[f] ELSE a[f]]

\* the object o keeping only the fields in S
Pick(o, S) == [f \in S \cap DOMAIN o |-> o[f]]

Min(a, b) == IF a < b THEN a ELSE b
Max(a, b) == IF a > b THEN a ELSE b

----------------------------------------------------------------------------
(* The constructor's configuration *)

ShippedTabs ==
    << [id |-> 1, title |-> "Lorem Ipsum",
        country |-> [code |-> "gb", name |-> "United Kingdom"],
        addressType |-> "Residential"],
       [id |-> 2, title |-> "Tab 2 Content",
        country |-> [code |-> "us", name |-> "United States"],
        addressType |-> "Commercial"],
       [id |-> 3, title |-> "Tab 3 Content",
        country |-> [code |-> "ca", name |-> "Canada"],
        addressType |-> "Industrial"],
       [id |-> 4, title |-> "Tab 4 Content",
        country |-> [code |-> "au", name |-> "Australia"],
        addressType |-> "Mixed"],
       [id |-> 5, title |-> "Tab 5 Content",
        country |-> [code |-> "de", name |-> "Germany"],
        addressType |-> "Rural"],
       [id |-> 6, title |-> "Tab 6 Content",
        country |-> [code |-> "fr", name |-> "France"],
        addressType |-> "Urban"] >>

Plain == [heading |-> "Lorem Ipsum", value |-> "Simply dummy text"]

contentRows ==
    << << Plain, [heading |-> "Dummy text", value |-> "-"] >>,
       << Plain, Plain >>,
       << Plain, Plain >>,
       << Plain, Plain, [heading |-> "Country", value |-> "", isCountry |-> TRUE] >>,
       << Plain, Plain, Plain >> >>

sectionRows ==
    << << Plain, [heading |-> "Address Type", value |-> "", isAddressType |-> TRUE], Plain >>,
       << Plain, Plain, Plain >>,
       << Plain, Plain, Plain >> >>

\* this.config as the constructor builds it, with the first InitTabs descriptors
configTabs == SubSeq(ShippedTabs, 1, Min(InitTabs, Len(ShippedTabs)))

ShippedConfig ==
    [tabs |-> configTabs, contentRows |-> contentRows, sectionRows |-> sectionRows]

----------------------------------------------------------------------------
(* The page the script is loaded into (index.html) *)

\* the markup of #tab-panel-1 before the script populates it
HtmlPanelContent ==
    [heading |-> "", rows |-> <<>>, sectionTitle |-> <<>>, sectionRows |-> <<>>]

\* one static trigger per configured tab, none marked active by the script yet
HtmlButtons(tabs) ==
    [i \in 1..Len(tabs) |-> [id |-> tabs[i].id, active |-> FALSE, listeners |-> 0]]

\* "First tab already exists in HTML": the one static panel is #tab-panel-1
HtmlPanels == << [id |-> 1, active |-> FALSE, content |-> HtmlPanelContent] >>

----------------------------------------------------------------------------
(* Events *)

Event(name, tabId, tabTitle, context) ==
    [name |-> name, tabId |-> tabId, tabTitle |-> tabTitle, context |-> context]

\* handleError that drops the context it was given
handleError_NoContext(out, context) == Append(out, Event("dashboardError", 0, "", ""))

\* handleError(error, context): dispatches dashboardError
handleError(out, context) == Append(out, Event("dashboardError", 0, "", context))

EventNames(out) == {out[i].name : i \in DOMAIN out}

\* the contexts of the dashboardError events in out
ErrorContexts(out) == {out[i].context : i \in {j \in DOMAIN out : out[j].name = "dashboardError"}}

----------------------------------------------------------------------------
(* PanelRenderer: populateTabContent and the two row generators *)

\* a truthy flag field of a template cell
Flag(item, f) == Has(item, f) /\ item[f]

\* tabConfig.id === 1 ? '' : `Tab ${tabConfig.id} - `
Prefix(tabConfig) ==
    IF Has(tabConfig, "id") /\ tabConfig.id = 1 THEN <<>>
    ELSE <<"Tab ", IF Has(tabConfig, "id") THEN tabConfig.id ELSE 0, " - ">>

\* `${x}` of a string field: a missing field prints as "undefined"
Str(obj, f) == IF Has(obj, f) THEN obj[f] ELSE "undefined"

\* a rendered .tab-content__item with its heading and value
Item(heading, value) == <<"item", heading, value>>

\* the padding cell '<div class="tab-content__item"></div>'
emptyColumnHTML == <<"item">>

Repeat(x, n) == [i \in 1..n |-> x]

\* reading tabConfig.country.code / .name throws a TypeError when
\* tabConfig.country is undefined
CountryThrows(tabConfig) == ~Has(tabConfig, "country")

\* generateContentRows throws: some cell of some row is a country cell whose
\* value cannot be read
generateContentRowsThrows(rows, tabConfig) ==
    \E r \in DOMAIN rows : \E c \in DOMAIN rows[r] :
        Flag(rows[r][c], "isCountry") /\ CountryThrows(tabConfig)

\* one cell of a main row
ContentColumn(item, tabConfig, prefix) ==
    IF Flag(item, "isCountry")
    THEN Item(prefix \o <<"Country">>,
              <<"img", tabConfig.country.code, tabConfig.country.name, "Flag",
                tabConfig.country.name>>)
    ELSE Item(prefix \o <<item.heading>>, <<item.value>>)

\* generateContentRows that pads every row to four cells
generateContentRows_FourColumns(rows, tabConfig, prefix) ==
    [r \in DOMAIN rows |->
        [c \in DOMAIN rows[r] |-> ContentColumn(rows[r][c], tabConfig, prefix)]
        \o Repeat(emptyColumnHTML, Max(0, 4 - Len(rows[r])))]

\* generateContentRows(tabConfig, prefix), when it does not throw
generateContentRows(rows, tabConfig, prefix) ==
    [r \in DOMAIN rows |->
        [c \in DOMAIN rows[r] |-> ContentColumn(rows[r][c], tabConfig, prefix)]
        \o Repeat(emptyColumnHTML, Max(0, 3 - Len(rows[r])))]

\* one cell of a section row
SectionColumn(item, tabConfig, prefix) ==
    IF Flag(item, "isAddressType")
    THEN Item(prefix \o <<"Address Type">>, <<Str(tabConfig, "addressType")>>)
    ELSE Item(prefix \o <<item.heading>>, <<item.value>>)

\* generateSectionRows(tabConfig, prefix)
generateSectionRows(rows, tabConfig, prefix) ==
    [r \in DOMAIN rows |->
        [c \in DOMAIN rows[r] |-> SectionColumn(rows[r][c], tabConfig, prefix)]]

\* populateTabContent throws before assigning innerHTML
populateThrows(cfg, tabConfig) == generateContentRowsThrows(cfg.contentRows, tabConfig)

\* the tree populateTabContent assigns to panel.innerHTML
populateTabContent(cfg, tabConfig) ==
    [heading      |-> Str(tabConfig, "title"),
     rows         |-> generateContentRows(cfg.contentRows, tabConfig, Prefix(tabConfig)),
     sectionTitle |-> Prefix(tabConfig) \o <<"Lorem Ipsum">>,
     sectionRows  |-> generateSectionRows(cfg.sectionRows, tabConfig, Prefix(tabConfig))]

\* createTabPanel(tabConfig): a new, inactive .tab-content element
createTabPanel(cfg, tabConfig) ==
    [id |-> tabConfig.id, active |-> FALSE, content |-> populateTabContent(cfg, tabConfig)]

----------------------------------------------------------------------------
(* Document queries *)

\* document.getElementById: the index of the first element with that id, 0 if none
getElementById(elems, id) ==
    IF \E i \in DOMAIN elems : elems[i].id = id
    THEN CHOOSE i \in DOMAIN elems :
            elems[i].id = id /\ \A j \in DOMAIN elems : elems[j].id = id => i <= j
    ELSE 0

\* element.remove() of the element at index k
RemoveAt(elems, k) == SubSeq(elems, 1, k - 1) \o SubSeq(elems, k + 1, Len(elems))

\* extractTabId(elementId): the trailing digits as a number; callers treat 0 as none
extractTabId(elementId) == IF elementId > 0 THEN elementId ELSE null

\* getActiveTabId(): the id of the first trigger carrying the active class, or null
getActiveTabId(buttons) ==
    IF \E i \in DOMAIN buttons : buttons[i].active
    THEN extractTabId(buttons[CHOOSE i \in DOMAIN buttons :
            buttons[i].active /\ \A j \in DOMAIN buttons : buttons[j].active => i <= j].id)
    ELSE null

\* config.tabs.findIndex(tab => tab.id === tabId), 0 for -1
findIndex(tabs, tabId) ==
    IF \E i \in DOMAIN tabs : tabs[i].id = tabId
    THEN CHOOSE i \in DOMAIN tabs :
            tabs[i].id = tabId /\ \A j \in DOMAIN tabs : tabs[j].id = tabId => i <= j
    ELSE 0

----------------------------------------------------------------------------
(* The controller's methods, as functions of the document                 *)
(* dom = [buttons, panels, out]: the triggers, the panels and the events  *)
(* dispatched so far by the running call.                                  *)

Dom(buttons, panels, out) == [buttons |-> buttons, panels |-> panels, out |-> out]

\* classList.remove(active) on every element of the list
ClearActive(elems) == [i \in DOMAIN elems |-> [elems[i] EXCEPT !.active = FALSE]]

\* the title activateTab puts in tabChanged: config.tabs.find(...)?.title
TitleOf(tabs, tabId) ==
    IF findIndex(tabs, tabId) = 0 THEN "undefined"
    ELSE Str(tabs[findIndex(tabs, tabId)], "title")

\* activateTab(tabId): the active markers are removed from every trigger and
\* panel first; then the target pair is looked up and marked, or the error is
\* caught and reported
activateTab(dom, tabs, tabId) ==
    LET buttons == ClearActive(dom.buttons)
        panels  == ClearActive(dom.panels)
        b == getElementById(buttons, tabId)
        p == getElementById(panels, tabId)
    IN  IF b # 0 /\ p # 0
        THEN Dom([buttons EXCEPT ![b].active = TRUE],
                 [panels EXCEPT ![p].active = TRUE],
                 Append(dom.out, Event("tabChanged", tabId, TitleOf(tabs, tabId), "")))
        ELSE Dom(buttons, panels, handleError(dom.out, "tab-activation"))

\* bindEvents() throws when the page has no tab trigger
bindEventsThrows(buttons) == Len(buttons) = 0

\* bindEvents(), when it does not throw: every tab trigger gets one more click
\* listener and one more keydown listener (each a new closure)
bindEvents(buttons) ==
    [i \in DOMAIN buttons |-> [buttons[i] EXCEPT !.listeners = @ + 1]]

\* generateTabContent(), from tab index i on: [panels, threw].
\* Index 0 of config.tabs populates #tab-panel-1 if it exists; every other
\* index appends a new panel.  A throw leaves the panels built so far.
RECURSIVE generateFrom(_, _, _)
generateFrom(cfg, panels, i) ==
    IF i > Len(cfg.tabs) THEN [panels |-> panels, threw |-> FALSE]
    ELSE LET tab == cfg.tabs[i]
             first == getElementById(panels, 1)
         IN  IF i = 1 /\ first = 0 THEN generateFrom(cfg, panels, i + 1)
             ELSE IF populateThrows(cfg, tab) THEN [panels |-> panels, threw |-> TRUE]
             ELSE IF i = 1
                  THEN generateFrom(cfg,
                          [panels EXCEPT ![first].content = populateTabContent(cfg, tab)],
                          i + 1)
                  ELSE generateFrom(cfg, Append(panels, createTabPanel(cfg, tab)), i + 1)

\* generateTabContent(): every .tab-content other than #tab-panel-1 is removed,
\* then the panels are generated from config.tabs
generateTabContent(cfg, panels) ==
    generateFrom(cfg, SelectSeq(panels, LAMBDA e : e.id = 1), 1)

\* The result of a method: the configuration and the document it leaves
Result(cfg, dom) == [cfg |-> cfg, dom |-> dom]

\* the tab id init() activates: this.activateTab(1)
initTabId(cfg) == 1

\* init(), called by the constructor
init(cfg, dom) ==
    LET g == generateTabContent(cfg, dom.panels)
    IN  IF g.threw \/ bindEventsThrows(dom.buttons)
        THEN Result(cfg, Dom(dom.buttons, g.panels, handleError(dom.out, "initialization")))
        ELSE LET a == activateTab(Dom(bindEvents(dom.buttons), g.panels, dom.out),
                                  cfg.tabs, initTabId(cfg))
             IN  Result(cfg, [a EXCEPT !.out =
                                Append(@, Event("dashboardInitialized", 0, "", ""))])

\* init() reaches and completes its bindEvents() call
initBinds(cfg, dom) ==
    ~generateTabContent(cfg, dom.panels).threw /\ ~bindEventsThrows(dom.buttons)

\* updateTabContent that stores newConfig as a new descriptor when tabId is
\* unknown, instead of refusing
updateTabContent_Upsert(cfg, dom, tabId, newConfig) ==
    LET tabIndex == findIndex(cfg.tabs, tabId)
        tabs2 == IF tabIndex = 0 THEN Append(cfg.tabs, newConfig)
                 ELSE [cfg.tabs EXCEPT ![tabIndex] = Spread(@, newConfig)]
    IN  Result([cfg EXCEPT !.tabs = tabs2],
               [dom EXCEPT !.out = Append(@, Event("tabContentUpdated", tabId, "", ""))])

\* updateTabContent that merges the other way round: the stored descriptor's
\* fields win over newConfig's
updateTabContent_OldFieldsWin(cfg, dom, tabId, newConfig) ==
    LET p == getElementById(dom.panels, tabId)
        tabIndex == findIndex(cfg.tabs, tabId)
    IN  IF p = 0 \/ tabIndex = 0
        THEN Result(cfg, [dom EXCEPT !.out = handleError(@, "tab-update")])
        ELSE LET merged == Spread(newConfig, cfg.tabs[tabIndex])
                 cfg2 == [cfg EXCEPT !.tabs[tabIndex] = merged]
             IN  IF populateThrows(cfg2, merged)
                 THEN Result(cfg2, [dom EXCEPT !.out = handleError(@, "tab-update")])
                 ELSE Result(cfg2,
                        Dom(dom.buttons,
                            [dom.panels EXCEPT ![p].content = populateTabContent(cfg2, merged)],
                            Append(dom.out, Event("tabContentUpdated", tabId, "", ""))))

\* updateTabContent(tabId, newConfig)
updateTabContent(cfg, dom, tabId, newConfig) ==
    LET p == getElementById(dom.panels, tabId)
        tabIndex == findIndex(cfg.tabs, tabId)
    IN  IF p = 0 \/ tabIndex = 0
        THEN Result(cfg, [dom EXCEPT !.out = handleError(@, "tab-update")])
        ELSE LET merged == Spread(cfg.tabs[tabIndex], newConfig)
                 cfg2 == [cfg EXCEPT !.tabs[tabIndex] = merged]
             IN  IF populateThrows(cfg2, merged)
                 THEN Result(cfg2, [dom EXCEPT !.out = handleError(@, "tab-update")])
                 ELSE Result(cfg2,
                        Dom(dom.buttons,
                            [dom.panels EXCEPT ![p].content = populateTabContent(cfg2, merged)],
                            Append(dom.out, Event("tabContentUpdated", tabId, "", ""))))

\* addTab's validation with the existing-id check left out
addTabRejects_NoDuplicateCheck(tabs, tabConfig) ==
    \/ ~Has(tabConfig, "id") \/ tabConfig.id = 0
    \/ ~Has(tabConfig, "title") \/ tabConfig.title = ""

\* addTab's validation: !tabConfig.id || !tabConfig.title, or the id is in use
addTabRejects(tabs, tabConfig) ==
    \/ ~Has(tabConfig, "id") \/ tabConfig.id = 0
    \/ ~Has(tabConfig, "title") \/ tabConfig.title = ""
    \/ \E i \in DOMAIN tabs : tabs[i].id = tabConfig.id

\* addTab(tabConfig)
addTab(cfg, dom, tabConfig) ==
    IF addTabRejects(cfg.tabs, tabConfig)
    THEN Result(cfg, [dom EXCEPT !.out = handleError(@, "tab-add")])
    ELSE LET cfg2 == [cfg EXCEPT !.tabs = Append(@, tabConfig)]
             buttons == Append(dom.buttons,
                               [id |-> tabConfig.id, active |-> FALSE, listeners |-> 0])
         IN  IF populateThrows(cfg2, tabConfig) \/ bindEventsThrows(buttons)
             THEN Result(cfg2, Dom(buttons, dom.panels, handleError(dom.out, "tab-add")))
             ELSE Result(cfg2,
                    Dom(bindEvents(buttons),
                        Append(dom.panels, createTabPanel(cfg2, tabConfig)),
                        Append(dom.out, Event("tabAdded", tabConfig.id, "", ""))))

\* addTab(tabConfig) reaches and completes its bindEvents() call
addTabBinds(cfg, dom, tabConfig) ==
    /\ ~addTabRejects(cfg.tabs, tabConfig)
    /\ ~populateThrows(cfg, tabConfig)

\* removeTab's validation with the last-tab guard off by one (length < 1)
removeTabRejects_AllowsLast(tabs, tabId) ==
    Len(tabs) < 1 \/ findIndex(tabs, tabId) = 0

\* removeTab's validation without the last-tab guard
removeTabRejects_UnknownIdOnly(tabs, tabId) ==
    findIndex(tabs, tabId) = 0

\* removeTab's validation: the last tab, or an id that is not configured
removeTabRejects(tabs, tabId) ==
    Len(tabs) <= 1 \/ findIndex(tabs, tabId) = 0

\* the tab removeTab activates after removing the active one
removeTabNext(tabs) == tabs[1].id

\* removeTab(tabId)
removeTab(cfg, dom, tabId) ==
    IF removeTabRejects(cfg.tabs, tabId)
    THEN Result(cfg, [dom EXCEPT !.out = handleError(@, "tab-remove")])
    ELSE LET cfg2 == [cfg EXCEPT !.tabs = RemoveAt(@, findIndex(cfg.tabs, tabId))]
             b == getElementById(dom.buttons, tabId)
             p == getElementById(dom.panels, tabId)
             buttons == IF b # 0 THEN RemoveAt(dom.buttons, b) ELSE dom.buttons
             panels  == IF p # 0 THEN RemoveAt(dom.panels, p) ELSE dom.panels
             d2 == Dom(buttons, panels, dom.out)
             d3 == IF getActiveTabId(buttons) = tabId
                   THEN activateTab(d2, cfg2.tabs, removeTabNext(cfg2.tabs))
                   ELSE d2
         IN  Result(cfg2, [d3 EXCEPT !.out = Append(@, Event("tabRemoved", tabId, "", ""))])

\* refresh()
refresh(cfg, dom) ==
    LET g == generateTabContent(cfg, dom.panels)
    IN  IF g.threw \/ bindEventsThrows(dom.buttons)
        THEN Result(cfg, Dom(dom.buttons, g.panels, handleError(dom.out, "refresh")))
        ELSE LET d2 == Dom(bindEvents(dom.buttons), g.panels, dom.out)
                 currentTabId ==
                    IF getActiveTabId(dom.buttons) # null THEN getActiveTabId(dom.buttons)
                    ELSE IF Len(cfg.tabs) > 0 THEN cfg.tabs[1].id ELSE null
                 d3 == IF currentTabId # null THEN activateTab(d2, cfg.tabs, currentTabId)
                       ELSE d2
             IN  Result(cfg, [d3 EXCEPT !.out =
                                Append(@, Event("dashboardRefreshed", 0, "", ""))])

\* refresh() reaches and completes its bindEvents() call
refreshBinds(cfg, dom) ==
    ~generateTabContent(cfg, dom.panels).threw /\ ~bindEventsThrows(dom.buttons)

\* destroy that also takes the active markers off the triggers and panels
destroy_ClearsActive(cfg, dom) ==
    Result(cfg, Dom(ClearActive(dom.buttons), ClearActive(dom.panels),
                    Append(dom.out, Event("dashboardDestroyed", 0, "", ""))))

\* destroy(): removeEventListener is called on every trigger with
\* this.activateTab and this.handleTabKeyNavigation, neither of which is one
\* of the closures bindEvents() registered, so no listener is removed
destroy(cfg, dom) ==
    Result(cfg, [dom EXCEPT !.out = Append(@, Event("dashboardDestroyed", 0, "", ""))])

\* document.activeElement after the trigger at index b left the document:
\* a removed element loses the focus to the body, later triggers move up
FocusAfterRemove(f, b) ==
    IF Len(f) = 2 /\ b # 0
    THEN IF f[2] = b THEN <<"body">>
         ELSE IF f[2] > b THEN <<"tab", f[2] - 1>> ELSE f
    ELSE f

----------------------------------------------------------------------------
(* Inputs *)

TabIds == 1..MaxId

\* a caller's complete descriptor for tab id i
NewTab(i) ==
    [id |-> i, title |-> "X", country |-> [code |-> "jp", name |-> "Japan"],
     addressType |-> "Urban"]

\* the descriptors addTab is called with: complete, without attribute data
\* (neither country nor address type), without an address type, without a
\* title, without an id
AddShapes ==
    { Fields, {"id", "title"}, {"id", "title", "country"}, {"id"}, {"title"} }

AddInputs == {Pick(NewTab(i), S) : i \in TabIds, S \in AddShapes}

\* the partial descriptors updateTabContent is called with: a title, a title
\* and a country (the README's example), an id, nothing
UpdateShapes == { {"title"}, {"title", "country"}, {"id"}, {} }

UpdateInputs == {Pick(NewTab(i), S) : i \in TabIds, S \in UpdateShapes}

----------------------------------------------------------------------------
(* The listeners bindEvents() puts on a tab trigger *)

\* what a listener works on: the document and document.activeElement
Ui(dom, f) == [dom |-> dom, focus |-> f]

Keys == {"ArrowLeft", "ArrowRight", "Home", "End", "Enter", " ", "Tab"}

\* a key handler that activates the trigger it is on for whatever key it
\* handles (selection following the keyboard)
handleTabKeyNavigation_ActivatesOnAnyKey(u, tabs, key, currentIndex) ==
    IF key \in {"ArrowLeft", "ArrowRight", "Home", "End", "Enter", " "}
    THEN Ui(activateTab(u.dom, tabs, u.dom.buttons[currentIndex].id), u.focus)
    ELSE u

\* handleTabKeyNavigation(e, currentButton), currentButton being the trigger
\* at index currentIndex (1-based here, 0-based in the code)
handleTabKeyNavigation(u, tabs, key, currentIndex) ==
    LET n == Len(u.dom.buttons)
        tabId == extractTabId(u.dom.buttons[currentIndex].id)
    IN  CASE key = "ArrowLeft" ->
                Ui(u.dom, <<"tab", IF currentIndex > 1 THEN currentIndex - 1 ELSE n>>)
          [] key = "ArrowRight" ->
                Ui(u.dom, <<"tab", IF currentIndex < n THEN currentIndex + 1 ELSE 1>>)
          [] key = "Home" -> Ui(u.dom, <<"tab", 1>>)
          [] key = "End" -> Ui(u.dom, <<"tab", n>>)
          [] key \in {"Enter", " "} ->
                IF tabId # null THEN Ui(activateTab(u.dom, tabs, tabId), u.focus) ELSE u
          [] OTHER -> u

\* the click listener of the trigger at index currentIndex
clickListener(u, tabs, currentIndex) ==
    LET tabId == extractTabId(u.dom.buttons[currentIndex].id)
    IN  IF tabId # null THEN Ui(activateTab(u.dom, tabs, tabId), u.focus) ELSE u

\* a keydown event on the trigger at index i runs each of the n keydown
\* listeners that trigger carries, in turn
RECURSIVE keydownListeners(_, _, _, _, _)
keydownListeners(u, tabs, key, i, n) ==
    IF n = 0 THEN u
    ELSE keydownListeners(handleTabKeyNavigation(u, tabs, key, i), tabs, key, i, n - 1)

\* a click event on the trigger at index i runs each of its n click listeners
RECURSIVE clickListeners(_, _, _, _)
clickListeners(u, tabs, i, n) ==
    IF n = 0 THEN u
    ELSE clickListeners(clickListener(u, tabs, i), tabs, i, n - 1)

----------------------------------------------------------------------------
(* The overlay surfaces (part_000): settings dialog, notification panel,   *)
(* account menu.  An overlay function maps the overlay state                *)
(* [open, focus, overflowHidden, pending, out] to the state it leaves.      *)

\* the three overlay surfaces: settings dialog, notification panel, account menu
Surfaces == {"email", "notification", "user"}

AllClosed == [s \in Surfaces |-> FALSE]

\* the deferred focus() callbacks: openEmailModal's on the dialog's close
\* button, openUserDropdown's on the first menu item
Deferred == {"email", "user"}

NonePending == [s \in Deferred |-> 0]

\* Deferred focus() callbacks outstanding at once, per callback
MaxPending == 2

\* How many seconds pass on the page with the start-timer button.
MaxClock == 2

\* The longest row of a row template, in cells.
MaxCols == 4

\* The longest elapsed time a tick formats, in seconds.
MaxSeconds == 3700

Overlay(o, f, h, p, out) ==
    [open |-> o, focus |-> f, overflowHidden |-> h, pending |-> p, out |-> out]

\* an overlay event carries only a timestamp
OverlayEvent(name) == Event(name, 0, "", "")

\* openEmailModal()
openEmailModal(o) ==
    Overlay([o.open EXCEPT !["email"] = TRUE], o.focus, TRUE,
            [o.pending EXCEPT !["email"] = @ + 1],
            Append(o.out, OverlayEvent("emailModalOpened")))

\* closeEmailModal that leaves body.style.overflow as it is
closeEmailModal_KeepsScrollSuspended(o) ==
    Overlay([o.open EXCEPT !["email"] = FALSE], <<"email-notifications-btn">>,
            o.overflowHidden, o.pending, Append(o.out, OverlayEvent("emailModalClosed")))

\* closeEmailModal()
closeEmailModal(o) ==
    Overlay([o.open EXCEPT !["email"] = FALSE], <<"email-notifications-btn">>, FALSE,
            o.pending, Append(o.out, OverlayEvent("emailModalClosed")))

\* saveEmailSettings()
saveEmailSettings(o) ==
    closeEmailModal([o EXCEPT !.out = Append(@, OverlayEvent("emailSettingsSaved"))])

\* openNotificationModal()
openNotificationModal(o) ==
    [o EXCEPT !.open["notification"] = TRUE,
              !.out = Append(@, OverlayEvent("notificationModalOpened"))]

\* closeNotificationModal()
closeNotificationModal(o) ==
    [o EXCEPT !.open["notification"] = FALSE,
              !.focus = <<"notification-btn">>,
              !.out = Append(@, OverlayEvent("notificationModalClosed"))]

\* toggleNotificationModal()
toggleNotificationModal(o) ==
    IF o.open["notification"] THEN closeNotificationModal(o) ELSE openNotificationModal(o)

\* openUserDropdown()
openUserDropdown(o) ==
    [o EXCEPT !.open["user"] = TRUE,
              !.pending["user"] = @ + 1,
              !.out = Append(@, OverlayEvent("userDropdownOpened"))]

\* closeUserDropdown()
closeUserDropdown(o) ==
    [o EXCEPT !.open["user"] = FALSE,
              !.focus = <<"user-dropdown-trigger">>,
              !.out = Append(@, OverlayEvent("userDropdownClosed"))]

\* toggleUserDropdown()
toggleUserDropdown(o) ==
    IF o.open["user"] THEN closeUserDropdown(o) ELSE openUserDropdown(o)

\* handleProfileSettings()
handleProfileSettings(o) ==
    [closeUserDropdown(o) EXCEPT !.out = Append(@, OverlayEvent("profileSettingsClicked"))]

\* The controls of the page the overlay listeners are put on; the panel
\* #notification-modal and the menu #user-dropdown-menu themselves, for a
\* click inside a surface on none of its controls; and "body" for any other
\* place of the page without a listener of its own.  The settings dialog's
\* cancel button and backdrop carry the close button's listener.
Targets ==
    {"email-notifications-btn", "email-modal-close", "email-modal-save",
     "notification-btn", "notification-close-btn", "notification-modal",
     "user-dropdown-trigger", "profile-settings-btn", "user-dropdown-menu", "body"}

\* the elements inside .user-dropdown
InUserDropdown ==
    {"user-dropdown-trigger", "profile-settings-btn", "logout-btn", "user-dropdown-menu"}

\* the elements inside #notification-modal
InNotificationModal == {"notification-close-btn", "notification-modal"}

\* the surface a control is part of and shown with, if any
ShownWith(target) ==
    CASE target \in {"email-modal-close", "email-modal-save"} -> "email"
      [] target \in {"notification-close-btn", "notification-modal"} -> "notification"
      [] target \in {"profile-settings-btn", "logout-btn", "user-dropdown-menu"} -> "user"
      [] OTHER -> "none"

\* the click listeners one run of bindEvents() puts on the target itself
clickTarget(o, target) ==
    CASE target = "email-notifications-btn" -> openEmailModal(o)
      [] target = "email-modal-close" -> closeEmailModal(o)
      [] target = "email-modal-save" -> saveEmailSettings(o)
      [] target = "notification-btn" -> toggleNotificationModal(o)
      [] target = "notification-close-btn" -> closeNotificationModal(o)
      [] target = "user-dropdown-trigger" -> toggleUserDropdown(o)
      [] target = "profile-settings-btn" -> handleProfileSettings(o)
      [] OTHER -> o

\* the two triggers' click listeners call e.stopPropagation()
stopsPropagation(target) == target \in {"notification-btn", "user-dropdown-trigger"}

\* document click listeners that close the notification panel on a click
\* inside it as well (no containment test)
clickDocument_NoContainmentTest(o, target) ==
    LET u == IF o.open["user"] /\ target \notin InUserDropdown
             THEN closeUserDropdown(o) ELSE o
    IN  IF u.open["notification"] /\ target # "notification-btn"
        THEN closeNotificationModal(u) ELSE u

\* the click listeners one run of bindEvents() puts on document:
\* bindUserDropdown's outside-click listener, then bindNotificationModal's
clickDocument(o, target) ==
    LET u == IF o.open["user"] /\ target \notin InUserDropdown
             THEN closeUserDropdown(o) ELSE o
    IN  IF /\ u.open["notification"]
           /\ target \notin InNotificationModal
           /\ target # "notification-btn"
        THEN closeNotificationModal(u) ELSE u

\* the n listeners n runs of bindEvents() have put on the target, in turn
RECURSIVE clickTargetListeners(_, _, _)
clickTargetListeners(o, target, n) ==
    IF n = 0 THEN o ELSE clickTargetListeners(clickTarget(o, target), target, n - 1)

\* the listeners n runs of bindEvents() have put on document, in turn
RECURSIVE clickDocumentListeners(_, _, _)
clickDocumentListeners(o, target, n) ==
    IF n = 0 THEN o ELSE clickDocumentListeners(clickDocument(o, target), target, n - 1)

\* a click on target: the clicked control takes the focus, its listeners
\* run, and the event bubbles to document unless a listener stopped it
click(o, target, n) ==
    LET clicked == [o EXCEPT !.focus = <<target>>]
        atTarget == clickTargetListeners(clicked, target, n)
    IN  IF stopsPropagation(target) /\ n > 0 THEN atTarget
        ELSE clickDocumentListeners(atTarget, target, n)

\* the keydown listener one run of bindEvents() puts on a trigger
keydownTrigger(o, target, key) ==
    IF key \in {"Enter", " "}
    THEN CASE target = "notification-btn" -> toggleNotificationModal(o)
           [] target = "user-dropdown-trigger" -> toggleUserDropdown(o)
           [] OTHER -> o
    ELSE o

\* the keydown listener bindEmailModal() puts on document
keydownDocument(o, key) ==
    IF o.open["email"] /\ key = "Escape" THEN closeEmailModal(o) ELSE o

RECURSIVE keydownTriggerListeners(_, _, _, _)
keydownTriggerListeners(o, target, key, n) ==
    IF n = 0 THEN o
    ELSE keydownTriggerListeners(keydownTrigger(o, target, key), target, key, n - 1)

RECURSIVE keydownDocumentListeners(_, _, _)
keydownDocumentListeners(o, key, n) ==
    IF n = 0 THEN o ELSE keydownDocumentListeners(keydownDocument(o, key), key, n - 1)

\* a keydown on the focused control: its own listeners, then document's
keydown(o, target, key, n) ==
    keydownDocumentListeners(keydownTriggerListeners(o, target, key, n), key, n)

\* the element a deferred focus() callback focuses
DeferredTarget(s) == IF s = "email" THEN <<"email-modal-close">> ELSE <<"profile-settings-btn">>

----------------------------------------------------------------------------
(* The start-timer button *)

\* the closure variables one run of bindStartTimerButton() declares;
\* timerInterval is TRUE while an interval is set
NewTimer == [isRunning |-> FALSE, timerInterval |-> FALSE, startTime |-> null]

\* bindStartTimerButton(): one more click listener on the button, with
\* closure variables of its own
bindStartTimerButton(closures) == Append(closures, NewTimer)

\* the closures of the listeners on the button, its text and the events
\* dispatched
Timer(closures, text, out) == [closures |-> closures, label |-> text, out |-> out]

\* the timer events carry only times
TimerEvent(name) == Event(name, 0, "", "")

\* the click listener of run i when the timer it sees is running (the else
\* branch)
stopTimer(tm, i) ==
    Timer([tm.closures EXCEPT ![i].timerInterval = FALSE, ![i].isRunning = FALSE],
          "Start Timer", Append(tm.out, TimerEvent("timerStopped")))

\* the click listener of run i, at time t
clickStartTimer(tm, i, t) ==
    IF ~tm.closures[i].isRunning
    THEN Timer([tm.closures EXCEPT
                    ![i] = [isRunning |-> TRUE, timerInterval |-> TRUE, startTime |-> t]],
               tm.label, Append(tm.out, TimerEvent("timerStarted")))
    ELSE stopTimer(tm, i)

\* the click listeners on the button from run i on, in the order they were
\* added
RECURSIVE clickStartTimerListeners(_, _, _)
clickStartTimerListeners(tm, i, t) ==
    IF i > Len(tm.closures) THEN tm
    ELSE clickStartTimerListeners(clickStartTimer(tm, i, t), i + 1, t)

Digits == <<"0", "1", "2", "3", "4", "5", "6", "7", "8", "9">>

\* Number.prototype.toString() of a whole number n >= 0
RECURSIVE toString(_)
toString(n) ==
    IF n < 10 THEN Digits[n + 1] ELSE toString(n \div 10) \o Digits[(n % 10) + 1]

\* String.prototype.padStart(targetLength, padString), padString one character
RECURSIVE padStart(_, _, _)
padStart(str, targetLength, padString) ==
    IF Len(str) >= targetLength THEN str
    ELSE padStart(padString \o str, targetLength, padString)

\* the interval callback's label with the minutes not reduced modulo 60
formattedTime_MinutesNotReduced(seconds) ==
    LET minutes == seconds \div 60
        hours == minutes \div 60
    IN  padStart(toString(hours), 2, "0") \o ":" \o
        padStart(toString(minutes), 2, "0") \o ":" \o
        padStart(toString(seconds % 60), 2, "0")

\* the label the interval callback computes from seconds =
\* Math.floor(elapsed / 1000)
formattedTime(seconds) ==
    LET minutes == seconds \div 60
        hours == minutes \div 60
    IN  padStart(toString(hours), 2, "0") \o ":" \o
        padStart(toString(minutes % 60), 2, "0") \o ":" \o
        padStart(toString(seconds % 60), 2, "0")

----------------------------------------------------------------------------
(* Log out *)

\* the overlay surfaces with the scheduled reloads
Session(o, r) == [o |-> o, reloads |-> r]

\* performLogout()
performLogout(ss) ==
    Session([ss.o EXCEPT !.out = Append(@, OverlayEvent("logoutConfirmed"))], ss.reloads + 1)

\* handleLogout that logs out whatever confirm() returned
handleLogout_Unconfirmed(ss, confirmed) ==
    performLogout(Session([closeUserDropdown(ss.o) EXCEPT
                               !.out = Append(@, OverlayEvent("logoutClicked"))], ss.reloads))

\* handleLogout(), confirmed being what confirm() returns
handleLogout(ss, confirmed) ==
    LET asked == Session([closeUserDropdown(ss.o) EXCEPT
                              !.out = Append(@, OverlayEvent("logoutClicked"))], ss.reloads)
    IN  IF confirmed THEN performLogout(asked) ELSE asked

\* the click listeners on #logout-btn from run i on, answers[i] being
\* what the user answers to the confirm() of listener i
RECURSIVE clickLogoutListeners(_, _, _)
clickLogoutListeners(ss, answers, i) ==
    IF i > Len(answers) THEN ss
    ELSE clickLogoutListeners(handleLogout(ss, answers[i]), answers, i + 1)

----------------------------------------------------------------------------
(* The state machine *)

\* the state a method call leaves
Apply(r) ==
    /\ config' = r.cfg
    /\ tabButtons' = r.dom.buttons
    /\ tabPanels' = r.dom.panels
    /\ published' = r.dom.out

\* one more call on the loaded controller
Called ==
    /\ phase = "ready"
    /\ calls < MaxCalls
    /\ calls' = calls + 1
    /\ UNCHANGED phase

\* a call of the named method, any but destroy()
CalledAs(method) ==
    /\ input' = <<"call", method>>
    /\ Called
    /\ UNCHANGED destroyed

Now == Dom(tabButtons, tabPanels, <<>>)

\* one more run of bindEvents(), or none
Rebinds(ran) ==
    /\ bound' = IF ran THEN bound + 1 ELSE bound
    /\ timers' = IF ran THEN bindStartTimerButton(timers) ELSE timers
    /\ UNCHANGED <<label, now, reloads>>

\* the page is parsed, the script has not run
Init ==
    /\ phase = "loading"
    /\ config = ShippedConfig
    /\ tabButtons = HtmlButtons(configTabs)
    /\ tabPanels = HtmlPanels
    /\ published = <<>>
    /\ calls = 0
    /\ destroyed = FALSE
    /\ input = <<"none">>
    /\ bound = 0
    /\ focus = <<"body">>
    /\ open = AllClosed
    /\ overflowHidden = FALSE
    /\ pending = NonePending
    /\ timers = <<>>
    /\ label = "Start Timer"
    /\ now = 0
    /\ reloads = 0

\* DOMContentLoaded: new WebMotionDashboard(), whose constructor calls init()
DOMContentLoaded ==
    /\ phase = "loading"
    /\ phase' = "ready"
    /\ UNCHANGED <<calls, destroyed, input, ui>>
    /\ Rebinds(initBinds(config, Now))
    /\ Apply(init(config, Now))

ActivateTab(tabId) ==
    /\ CalledAs("activateTab")
    /\ UNCHANGED <<bound, ui, session>>
    /\ Apply(Result(config, activateTab(Now, config.tabs, tabId)))

UpdateTabContent(tabId, newConfig) ==
    /\ CalledAs("updateTabContent")
    /\ UNCHANGED <<bound, ui, session>>
    /\ Apply(updateTabContent(config, Now, tabId, newConfig))

AddTab(tabConfig) ==
    /\ CalledAs("addTab")
    /\ Len(config.tabs) < MaxTabs
    /\ Len(tabButtons) < MaxTabs
    /\ UNCHANGED ui
    /\ Rebinds(addTabBinds(config, Now, tabConfig))
    /\ Apply(addTab(config, Now, tabConfig))

RemoveTab(tabId) ==
    /\ CalledAs("removeTab")
    /\ UNCHANGED <<bound, open, overflowHidden, pending, session>>
    /\ focus' = IF removeTabRejects(config.tabs, tabId) THEN focus
                ELSE FocusAfterRemove(focus, getElementById(tabButtons, tabId))
    /\ Apply(removeTab(config, Now, tabId))

Refresh ==
    /\ CalledAs("refresh")
    /\ UNCHANGED ui
    /\ Rebinds(refreshBinds(config, Now))
    /\ Apply(refresh(config, Now))

Destroy ==
    /\ input' = <<"call", "destroy">>
    /\ Called
    /\ destroyed' = TRUE
    /\ UNCHANGED <<bound, ui, session>>
    /\ Apply(destroy(config, Now))

\* the user moves the focus to the trigger at index i (Tab key, pointer)
FocusTab(i) ==
    /\ phase = "ready"
    /\ i \in DOMAIN tabButtons
    /\ focus # <<"tab", i>>
    /\ focus' = <<"tab", i>>
    /\ published' = <<>>
    /\ input' = <<"focus", "tab">>
    /\ UNCHANGED <<phase, config, tabButtons, tabPanels, calls, destroyed, bound,
                   open, overflowHidden, pending, session>>

\* what a user event on a tab trigger leaves
ApplyUi(u) ==
    /\ tabButtons' = u.dom.buttons
    /\ tabPanels' = u.dom.panels
    /\ published' = u.dom.out
    /\ focus' = u.focus
    /\ UNCHANGED <<phase, config, calls, destroyed, bound, open, overflowHidden, pending,
                   session>>

\* a key goes down while the trigger at index i has the focus
KeyDownTab(i, key) ==
    /\ phase = "ready"
    /\ focus = <<"tab", i>>
    /\ input' = <<"keydown", key>>
    /\ ApplyUi(keydownListeners(Ui(Now, focus), config.tabs, key, i, tabButtons[i].listeners))

\* pointer activation of the trigger at index i; the trigger takes the focus
ClickTab(i) ==
    /\ phase = "ready"
    /\ i \in DOMAIN tabButtons
    /\ input' = <<"click", "tab">>
    /\ ApplyUi(clickListeners(Ui(Now, <<"tab", i>>), config.tabs, i, tabButtons[i].listeners))

NowOverlay == Overlay(open, focus, overflowHidden, pending, <<>>)

\* what a user event or a call on the overlay surfaces leaves
ApplyOverlay(o) ==
    /\ \A s \in Deferred : o.pending[s] <= MaxPending
    /\ open' = o.open
    /\ focus' = o.focus
    /\ overflowHidden' = o.overflowHidden
    /\ pending' = o.pending
    /\ published' = o.out
    /\ UNCHANGED <<config, tabButtons, tabPanels, bound>>

\* a click on a control that is shown, or on the page outside every control
Click(target) ==
    /\ phase = "ready"
    /\ IF ShownWith(target) = "none" THEN TRUE ELSE open[ShownWith(target)]
    /\ input' = <<"click", target>>
    /\ UNCHANGED <<phase, calls, destroyed, session>>
    /\ ApplyOverlay(click(NowOverlay, target, bound))

\* the user moves the focus to one of the two triggers with key listeners
FocusTrigger(target) ==
    /\ phase = "ready"
    /\ target \in {"notification-btn", "user-dropdown-trigger"}
    /\ focus # <<target>>
    /\ focus' = <<target>>
    /\ published' = <<>>
    /\ input' = <<"focus", target>>
    /\ UNCHANGED <<phase, config, tabButtons, tabPanels, calls, destroyed, bound,
                   open, overflowHidden, pending, session>>

OverlayKeys == {"Enter", " ", "Escape"}

\* a key goes down while a control of the page, or the body, has the focus
KeyDown(key) ==
    /\ phase = "ready"
    /\ Len(focus) = 1
    /\ input' = <<"keydown", key>>
    /\ UNCHANGED <<phase, calls, destroyed, session>>
    /\ ApplyOverlay(keydown(NowOverlay, focus[1], key, bound))

\* a deferred focus() callback runs.  Whether focus() takes effect on a
\* control of a surface that was closed meanwhile depends on how the
\* stylesheet hides it: both outcomes are possible.
Timeout(s) ==
    /\ pending[s] > 0
    /\ pending' = [pending EXCEPT ![s] = @ - 1]
    /\ focus' \in (IF open[s] THEN {} ELSE {focus}) \cup {DeferredTarget(s)}
    /\ published' = <<>>
    /\ input' = <<"timeout", s>>
    /\ UNCHANGED <<phase, config, tabButtons, tabPanels, calls, destroyed, bound,
                   open, overflowHidden, session>>

\* the name of the close function of a surface
closeName(s) ==
    CASE s = "email" -> "closeEmailModal"
      [] s = "notification" -> "closeNotificationModal"
      [] s = "user" -> "closeUserDropdown"

\* the close function of a surface
close(o, s) ==
    CASE s = "email" -> closeEmailModal(o)
      [] s = "notification" -> closeNotificationModal(o)
      [] s = "user" -> closeUserDropdown(o)

\* a script calls closeEmailModal(), closeNotificationModal() or
\* closeUserDropdown() on the controller
CloseCall(s) ==
    /\ CalledAs(closeName(s))
    /\ UNCHANGED session
    /\ ApplyOverlay(close(NowOverlay, s))

\* a click on the start-timer button: its listeners run in the order they
\* were added, then the event bubbles to document
ClickStartTimer ==
    /\ phase = "ready"
    /\ input' = <<"click", "start-timer">>
    /\ LET tm == clickStartTimerListeners(Timer(timers, label, <<>>), 1, now)
       IN  /\ timers' = tm.closures
           /\ label' = tm.label
           /\ ApplyOverlay(click([NowOverlay EXCEPT !.out = tm.out], "start-timer", bound))
    /\ UNCHANGED <<phase, calls, destroyed, now, reloads>>

\* a second passes
Advance ==
    /\ now < MaxClock
    /\ now' = now + 1
    /\ input' = <<"clock">>
    /\ published' = <<>>
    /\ UNCHANGED <<phase, config, tabButtons, tabPanels, calls, destroyed, bound, ui,
                   timers, label, reloads>>

\* the interval callback of run i fires, a second or more after its start
Tick(i) ==
    /\ i \in DOMAIN timers
    /\ timers[i].timerInterval
    /\ now > timers[i].startTime
    /\ label' = formattedTime(now - timers[i].startTime)
    /\ input' = <<"tick", i>>
    /\ published' = <<>>
    /\ UNCHANGED <<phase, config, tabButtons, tabPanels, calls, destroyed, bound, ui,
                   timers, now, reloads>>

\* what the user can answer to the confirm() dialogs of n listeners
Answers(n) == [1..n -> BOOLEAN]

\* a click on #logout-btn, shown with the account menu: each listener runs
\* handleLogout() and blocks in confirm() until the user answers; then the
\* event bubbles to document
ClickLogout(answers) ==
    /\ phase = "ready"
    /\ open["user"]
    /\ answers \in Answers(bound)
    /\ input' = <<"click", "logout-btn", answers>>
    /\ LET clicked == Session([NowOverlay EXCEPT !.focus = <<"logout-btn">>], reloads)
           ss == clickLogoutListeners(clicked, answers, 1)
       IN  /\ ss.reloads <= MaxPending
           /\ reloads' = ss.reloads
           /\ ApplyOverlay(clickDocumentListeners(ss.o, "logout-btn", bound))
    /\ UNCHANGED <<phase, calls, destroyed, timers, label, now>>

\* a scheduled window.location.reload() runs: the page is loaded anew, every
\* listener, closure and timer of the old page is gone
Reload ==
    /\ reloads > 0
    /\ phase' = "loading"
    /\ config' = ShippedConfig
    /\ tabButtons' = HtmlButtons(configTabs)
    /\ tabPanels' = HtmlPanels
    /\ published' = <<>>
    /\ destroyed' = FALSE
    /\ input' = <<"reload">>
    /\ bound' = 0
    /\ focus' = <<"body">>
    /\ open' = AllClosed
    /\ overflowHidden' = FALSE
    /\ pending' = NonePending
    /\ timers' = <<>>
    /\ label' = "Start Timer"
    /\ reloads' = 0
    /\ UNCHANGED <<calls, now>>

Next ==
    \/ DOMContentLoaded
    \/ \E t \in TabIds : ActivateTab(t)
    \/ \E t \in TabIds, d \in UpdateInputs : UpdateTabContent(t, d)
    \/ \E d \in AddInputs : AddTab(d)
    \/ \E t \in TabIds : RemoveTab(t)
    \/ Refresh

Spec == Init /\ [][Next]_vars

\* The constructor's configuration is the documented customisation point
\* ("Modify the JavaScript configuration"): the valid non-empty
\* configurations are the non-empty lists of descriptors with distinct ids,
\* each with its title and attribute data.
ValidTabLists ==
    { [i \in DOMAIN s |-> ShippedTabs[s[i]]] :
        s \in { f \in UNION { [1..n -> 1..Min(MaxId, Len(ShippedTabs))] : n \in 1..InitTabs } :
                    \A i, j \in DOMAIN f : i # j => f[i] # f[j] } }

\* the page built for any valid configuration: one static trigger per
\* configured tab and the static panel #tab-panel-1
InitCfg ==
    /\ phase = "loading"
    /\ \E tabs \in ValidTabLists :
            /\ config = [ShippedConfig EXCEPT !.tabs = tabs]
            /\ tabButtons = HtmlButtons(tabs)
    /\ tabPanels = HtmlPanels
    /\ published = <<>>
    /\ calls = 0
    /\ destroyed = FALSE
    /\ input = <<"none">>
    /\ bound = 0
    /\ focus = <<"body">>
    /\ open = AllClosed
    /\ overflowHidden = FALSE
    /\ pending = NonePending
    /\ timers = <<>>
    /\ label = "Start Timer"
    /\ now = 0
    /\ reloads = 0

SpecCfg == InitCfg /\ [][Next]_vars

\* The trigger indices a page can have
TabIndices == 1..MaxTabs

\* complete descriptors and descriptors without attribute data
KeysAddInputs == {Pick(NewTab(i), S) : i \in TabIds, S \in {Fields, {"id", "title"}}}

\* The controller under user input on the tab triggers, with the calls
\* that change the trigger list or the bindings
NextKeys ==
    \/ DOMContentLoaded
    \/ \E d \in KeysAddInputs : AddTab(d)
    \/ \E t \in TabIds : RemoveTab(t)
    \/ Refresh
    \/ Destroy
    \/ \E i \in TabIndices : FocusTab(i)
    \/ \E i \in TabIndices : ClickTab(i)
    \/ \E i \in TabIndices : \E key \in Keys : KeyDownTab(i, key)

SpecKeys == Init /\ [][NextKeys]_vars

\* The calls that are to leave the selection alone, with activateTab to
\* move it
NextFrame ==
    \/ DOMContentLoaded
    \/ \E t \in TabIds : ActivateTab(t)
    \/ \E d \in KeysAddInputs : AddTab(d)
    \/ \E t \in TabIds, d \in UpdateInputs : UpdateTabContent(t, d)
    \/ Destroy

SpecFrame == Init /\ [][NextFrame]_vars

\* The controller under user input on the overlay surfaces, with the calls
\* that close a surface or run the binding step again
NextOverlay ==
    \/ DOMContentLoaded
    \/ AddTab(NewTab(MaxId))
    \/ Refresh
    \/ \E s \in Surfaces : CloseCall(s)
    \/ \E target \in Targets : Click(target)
    \/ \E target \in Targets : FocusTrigger(target)
    \/ \E key \in OverlayKeys : KeyDown(key)
    \/ \E s \in Deferred : Timeout(s)

SpecOverlay == Init /\ [][NextOverlay]_vars

\* The start-timer button under clicks, ticks and the passing of time, with
\* the calls that run the binding step again
NextTimer ==
    \/ DOMContentLoaded
    \/ AddTab(NewTab(MaxId))
    \/ Refresh
    \/ ClickStartTimer
    \/ Advance
    \/ \E i \in 1..(MaxCalls + 1) : Tick(i)

SpecTimer == Init /\ [][NextTimer]_vars

\* The account menu and its log-out item
NextLogout ==
    \/ DOMContentLoaded
    \/ Refresh
    \/ \E target \in {"user-dropdown-trigger", "body"} : Click(target)
    \/ \E answers \in Answers(bound) : ClickLogout(answers)
    \/ \E s \in Deferred : Timeout(s)
    \/ Reload

SpecLogout == Init /\ [][NextLogout]_vars

\* The page a while after the timer was started at time 0: the elapsed
\* seconds are any whole number up to MaxSeconds, and no tick has run yet
InitFormat ==
    LET r == init(ShippedConfig, Dom(HtmlButtons(configTabs), HtmlPanels, <<>>))
    IN  /\ phase = "ready"
        /\ config = r.cfg
        /\ tabButtons = r.dom.buttons
        /\ tabPanels = r.dom.panels
        /\ published = <<>>
        /\ calls = 0
        /\ destroyed = FALSE
        /\ input = <<"clock">>
        /\ bound = 1
        /\ focus = <<"start-timer">>
        /\ open = AllClosed
        /\ overflowHidden = FALSE
        /\ pending = NonePending
        /\ timers = << [isRunning |-> TRUE, timerInterval |-> TRUE, startTime |-> 0] >>
        /\ label = "Start Timer"
        /\ now \in 1..MaxSeconds
        /\ reloads = 0

NextFormat == Tick(1)

SpecFormat == InitFormat /\ [][NextFormat]_vars

\* a template row of k cells, the last of them the given cell
RowEnding(k, last) == [c \in 1..k |-> IF c = k THEN last ELSE Plain]

\* the main-row template rows: up to MaxCols cells, with or without a
\* country cell
ContentTemplateRows ==
    {RowEnding(k, cell) : k \in 0..MaxCols, cell \in {Plain, contentRows[4][3]}}

\* the section-row template rows: up to MaxCols cells, with or without an
\* address-type cell
SectionTemplateRows ==
    {RowEnding(k, cell) : k \in 0..MaxCols, cell \in {Plain, sectionRows[1][2]}}

\* The page built for the shipped tabs with any row templates: the main
\* rows are one or two template rows, the section rows one
InitRows ==
    /\ phase = "loading"
    /\ \E a \in ContentTemplateRows, b \in ContentTemplateRows \cup {<<>>},
          sr \in SectionTemplateRows :
            config = [ShippedConfig EXCEPT
                        !.contentRows = IF b = <<>> THEN <<a>> ELSE <<a, b>>,
                        !.sectionRows = <<sr>>]
    /\ tabButtons = HtmlButtons(configTabs)
    /\ tabPanels = HtmlPanels
    /\ published = <<>>
    /\ calls = 0
    /\ destroyed = FALSE
    /\ input = <<"none">>
    /\ bound = 0
    /\ focus = <<"body">>
    /\ open = AllClosed
    /\ overflowHidden = FALSE
    /\ pending = NonePending
    /\ timers = <<>>
    /\ label = "Start Timer"
    /\ now = 0
    /\ reloads = 0

\* the calls that render panels
NextRows ==
    \/ DOMContentLoaded
    \/ AddTab(NewTab(MaxId))
    \/ \E t \in TabIds : UpdateTabContent(t, Pick(NewTab(t), {"title"}))

SpecRows == InitRows /\ [][NextRows]_vars

----------------------------------------------------------------------------
(* Observations *)

\* ActiveSelection, as getActiveTabId() reports it
ActiveSelection == getActiveTabId(tabButtons)

\* the ids of the TabDescriptors in ConfigStore
ConfigIds == {config.tabs[i].id : i \in DOMAIN config.tabs}

ActiveButtons == {i \in DOMAIN tabButtons : tabButtons[i].active}
ActivePanels == {i \in DOMAIN tabPanels : tabPanels[i].active}

\* the state right after the constructor has run init()
JustInitialized == phase = "ready" /\ calls = 0

\* tabId resolves to both a trigger and a panel
Resolves(tabId) ==
    getElementById(tabButtons, tabId) # 0 /\ getElementById(tabPanels, tabId) # 0

\* the last call published exactly one dashboardError, with this context, and
\* no event named miss
FailedWith(out, context, miss) ==
    /\ ErrorContexts(out) = {context}
    /\ Cardinality({i \in DOMAIN out : out[i].name = "dashboardError"}) = 1
    /\ miss \notin EventNames(out)

\* ConfigStore, the trigger set and the panel set are what they were
Unmutated ==
    config' = config /\ tabButtons' = tabButtons /\ tabPanels' = tabPanels

----------------------------------------------------------------------------
(* Claims *)

\* C1: for every valid non-empty tab configuration, right after
\* initialization exactly one tab is active (one trigger and one panel carry
\* the active marker) and it is the first descriptor in configuration order.
C1_FirstTabActiveAfterInit ==
    JustInitialized =>
        /\ Cardinality(ActiveButtons) = 1
        /\ Cardinality(ActivePanels) = 1
        /\ ActiveSelection = config.tabs[1].id
        /\ \A i \in ActivePanels : tabPanels[i].id = config.tabs[1].id

\* C2: once initialization has completed, between calls ActiveSelection is
\* never none: getActiveTabId() returns the id of an existing TabDescriptor.
C2_ActiveSelectionNeverNone ==
    phase = "ready" => (ActiveSelection # null /\ ActiveSelection \in ConfigIds)

\* C3: an activate(tabId) whose tabId does not resolve to both a trigger and
\* a panel leaves the active markers of every trigger and panel (hence
\* ActiveSelection) as they were and publishes a dashboardError with context
\* "tab-activation".
C3_FailedActivateKeepsSelection ==
    [][ \A t \in TabIds :
            (ActivateTab(t) /\ ~Resolves(t)) =>
                /\ tabButtons' = tabButtons
                /\ tabPanels' = tabPanels
                /\ "tab-activation" \in ErrorContexts(published') ]_vars

\* C4: removeTab(t) of the currently active tab t, when another tab remains,
\* ends with ActiveSelection equal to the id of the first remaining
\* TabDescriptor, and a tabChanged event for it is published.
C4_RemoveActiveActivatesFirstRemaining ==
    [][ \A t \in TabIds :
            (RemoveTab(t) /\ ActiveSelection = t /\ t \in ConfigIds
                /\ Len(config.tabs) > 1) =>
                /\ getActiveTabId(tabButtons') = config'.tabs[1].id
                /\ \E i \in DOMAIN published' :
                        /\ published'[i].name = "tabChanged"
                        /\ published'[i].tabId = config'.tabs[1].id ]_vars

\* C5: removeTab(t) when only one TabDescriptor remains, or when t is not the
\* id of any TabDescriptor, publishes a dashboardError with context
\* "tab-remove" and no tabRemoved, and leaves ConfigStore, the triggers, the
\* panels and ActiveSelection unchanged.
C5_RejectedRemoveMutatesNothing ==
    [][ \A t \in TabIds :
            (RemoveTab(t) /\ (Len(config.tabs) <= 1 \/ t \notin ConfigIds)) =>
                /\ Unmutated
                /\ getActiveTabId(tabButtons') = ActiveSelection
                /\ FailedWith(published', "tab-remove", "tabRemoved") ]_vars

\* C5 witness: a removeTab was refused on the sole remaining tab.
C5_Witness ==
    /\ Len(config.tabs) = 1
    /\ FailedWith(published, "tab-remove", "tabRemoved")

\* C6: in every reachable state ConfigStore holds at least one TabDescriptor.
C6_AtLeastOneTab == Len(config.tabs) >= 1

\* C6 witness: a removal has brought ConfigStore down to its last descriptor.
C6_Witness ==
    Len(config.tabs) = 1 /\ "tabRemoved" \in EventNames(published)

\* C7: no two TabDescriptors in ConfigStore have the same id, whatever
\* partial descriptors (including ones carrying an id) the calls were given.
C7_UniqueIds ==
    \A i, j \in DOMAIN config.tabs : i # j => config.tabs[i].id # config.tabs[j].id

\* a descriptor with an id and a title that supplies neither country nor
\* address-type data
NoAttributeData(d) ==
    Has(d, "id") /\ Has(d, "title") /\ ~Has(d, "country") /\ ~Has(d, "addressType")

\* C8: addTab(d) for d with an unused id and a title but no country and no
\* category data succeeds (tabAdded and no dashboardError published, a trigger
\* and a panel for d.id exist), and a following activate(d.id) makes d.id the
\* ActiveSelection without publishing a dashboardError.
C8_AddWithoutAttributesThenActivate ==
    [][ /\ \A d \in AddInputs :
            (AddTab(d) /\ NoAttributeData(d) /\ d.id \notin ConfigIds) =>
                /\ "tabAdded" \in EventNames(published')
                /\ "dashboardError" \notin EventNames(published')
                /\ getElementById(tabButtons', d.id) # 0
                /\ getElementById(tabPanels', d.id) # 0
        /\ \A t \in TabIds :
            (ActivateTab(t) /\ \E i \in DOMAIN config.tabs :
                                config.tabs[i].id = t /\ NoAttributeData(config.tabs[i])) =>
                /\ getActiveTabId(tabButtons') = t
                /\ "dashboardError" \notin EventNames(published') ]_vars

\* the value of a rendered cell
CellValue(cell) == cell[3]

\* the marker cells of a rendered panel all have the empty value
\* (the country cell of main row 4, the address-type cell of section row 1)
CountryCellEmpty(tree) == CellValue(tree.rows[4][3]) = <<"">>
AddressTypeCellEmpty(tree) == CellValue(tree.sectionRows[1][2]) = <<"">>

\* C9: PanelRenderer is total: for any TabDescriptor of ConfigStore, when the
\* attribute a marker cell needs is absent, rendering completes without an
\* error and that marker cell's value is empty.
C9_RendererTotal ==
    \A i \in DOMAIN config.tabs :
        LET d == config.tabs[i] IN
        /\ ~populateThrows(config, d)
        /\ ~Has(d, "country") => CountryCellEmpty(populateTabContent(config, d))
        /\ ~Has(d, "addressType") => AddressTypeCellEmpty(populateTabContent(config, d))

\* C10: addTab(d) where d lacks an id or a title, or where d.id is already
\* the id of a TabDescriptor, publishes a dashboardError with context
\* "tab-add" and no tabAdded, and leaves ConfigStore, the triggers and the
\* panels unchanged.
C10_RejectedAddMutatesNothing ==
    [][ \A d \in AddInputs :
            (AddTab(d) /\ (~Has(d, "id") \/ ~Has(d, "title") \/ d.id \in ConfigIds)) =>
                /\ Unmutated
                /\ FailedWith(published', "tab-add", "tabAdded") ]_vars

\* C10 witness: an addTab has just been refused on the untouched shipped
\* configuration.
C10_Witness ==
    /\ calls = 1
    /\ config = ShippedConfig
    /\ Len(tabButtons) = Len(config.tabs)
    /\ FailedWith(published, "tab-add", "tabAdded")

\* C11: updateTabContent(t, p) where t is not the id of any TabDescriptor
\* leaves ConfigStore unchanged, publishes a dashboardError with context
\* "tab-update" and publishes no tabContentUpdated.
C11_UnknownUpdateMutatesNothing ==
    [][ \A t \in TabIds : \A n \in UpdateInputs :
            (t \notin ConfigIds /\ UpdateTabContent(t, n)) =>
                /\ config' = config
                /\ FailedWith(published', "tab-update", "tabContentUpdated") ]_vars

\* C11 witness: the first call was an updateTabContent that was refused, and
\* some id the callers use is not the id of a descriptor.
C11_Witness ==
    /\ input = <<"call", "updateTabContent">>
    /\ calls = 1
    /\ TabIds \ ConfigIds # {}
    /\ config = ShippedConfig
    /\ FailedWith(published, "tab-update", "tabContentUpdated")

\* activate(x) called twice in a row from the current state: the document
\* after the first call, and the document and the events after the second
ActivateOnce(x) == activateTab(Now, config.tabs, x)

ActivateTwice(x) ==
    activateTab(Dom(ActivateOnce(x).buttons, ActivateOnce(x).panels, <<>>), config.tabs, x)

\* C12: for any existing tab x, activate(x) followed by activate(x) is
\* idempotent on state: after the second call the active trigger, the active
\* panel and the rendered panels equal those after the first call
\* (activate never writes ConfigStore), and the second call still publishes a
\* tabChanged event for x.
C12_ActivateTwiceIdempotent ==
    phase = "ready" =>
        \A x \in ConfigIds :
            /\ ActivateTwice(x).buttons = ActivateOnce(x).buttons
            /\ ActivateTwice(x).panels = ActivateOnce(x).panels
            /\ \E i \in DOMAIN ActivateTwice(x).out :
                    /\ ActivateTwice(x).out[i].name = "tabChanged"
                    /\ ActivateTwice(x).out[i].tabId = x

\* what one call of a public operation may publish: its completion event,
\* with at most the one dashboardError of an activation it made on the way,
\* or exactly one dashboardError carrying the operation's own context
CallOutcome(out, context, done) ==
    \/ /\ done \in EventNames(out)
       /\ ErrorContexts(out) \subseteq {"tab-activation"}
       /\ Cardinality({i \in DOMAIN out : out[i].name = "dashboardError"}) <= 1
    \/ FailedWith(out, context, done)

\* C13: activate, addTab, removeTab, updateTabContent and refresh, called
\* with any argument in any reachable state, return (the call completes and
\* the controller stays ready), and a call that fails publishes exactly one
\* dashboardError whose context is the operation's name.
C13_FailuresReportedOnce ==
    /\ input = <<"call", "activateTab">> =>
            CallOutcome(published, "tab-activation", "tabChanged")
    /\ input = <<"call", "addTab">> => CallOutcome(published, "tab-add", "tabAdded")
    /\ input = <<"call", "removeTab">> => CallOutcome(published, "tab-remove", "tabRemoved")
    /\ input = <<"call", "updateTabContent">> =>
            CallOutcome(published, "tab-update", "tabContentUpdated")
    /\ input = <<"call", "refresh">> =>
            CallOutcome(published, "refresh", "dashboardRefreshed")
    /\ input[1] = "call" => phase = "ready"

\* C13 witness: a refresh() has just failed.
C13_Witness ==
    input = <<"call", "refresh">> /\ FailedWith(published, "refresh", "dashboardRefreshed")

\* the trigger a key moves the focus to from index i of n (1-based)
KeyTarget(key, i, n) ==
    CASE key = "ArrowLeft" -> IF i = 1 THEN n ELSE i - 1
      [] key = "ArrowRight" -> IF i = n THEN 1 ELSE i + 1
      [] key = "Home" -> 1
      [] key = "End" -> n

FocusKeys == {"ArrowLeft", "ArrowRight", "Home", "End"}

\* C14: over the ordered trigger sequence of length n, from the trigger at
\* index i, ArrowLeft moves the focus to index i-1, or to the last trigger
\* from the first; ArrowRight to index i+1, or to the first trigger from the
\* last; Home to the first trigger; End to the last.
C14_KeysMoveFocus ==
    [][ \A i \in TabIndices : \A key \in FocusKeys :
            KeyDownTab(i, key) => focus' = <<"tab", KeyTarget(key, i, Len(tabButtons))>> ]_vars

\* C15: ArrowLeft, ArrowRight, Home and End on a trigger change only which
\* trigger has the focus: ActiveSelection, the active markers of the
\* triggers and panels and ConfigStore are unchanged, and nothing is
\* published.
C15_FocusKeysChangeOnlyFocus ==
    [][ \A i \in TabIndices : \A key \in FocusKeys :
            KeyDownTab(i, key) =>
                /\ ActiveSelection' = ActiveSelection
                /\ tabButtons' = tabButtons
                /\ tabPanels' = tabPanels
                /\ config' = config
                /\ published' = <<>> ]_vars

\* C15 witness: ArrowRight on the last of three triggers has just wrapped the
\* focus to the first, with another tab selected.
C15_Witness ==
    /\ input = <<"keydown", "ArrowRight">>
    /\ Len(tabButtons) = 3
    /\ focus = <<"tab", 1>>
    /\ ActiveSelection \notin {null, tabButtons[1].id}

\* C16: a successful addTab, a successful updateTabContent (including one
\* that targets the currently active tab) and destroy each leave
\* ActiveSelection unchanged.
C16_SelectionKeptByAddUpdateDestroy ==
    [][ ( \/ input' = <<"call", "addTab">> /\ "tabAdded" \in EventNames(published')
          \/ /\ input' = <<"call", "updateTabContent">>
             /\ "tabContentUpdated" \in EventNames(published')
          \/ input' = <<"call", "destroy">> )
        => ActiveSelection' = ActiveSelection ]_vars

\* C16 witness: the content of the currently active tab has just been
\* updated, after a destroy().
C16_Witness ==
    /\ input = <<"call", "updateTabContent">>
    /\ destroyed
    /\ ActiveSelection # null
    /\ published = << Event("tabContentUpdated", ActiveSelection, "", "") >>

\* C17: after destroy() has been called, a pointer activation or an Enter or
\* Space key event on a tab trigger no longer invokes activate: it neither
\* changes ActiveSelection nor publishes tabChanged.
C17_DestroyReleasesBindings ==
    [][ destroyed =>
            \A i \in TabIndices :
                (ClickTab(i) \/ KeyDownTab(i, "Enter") \/ KeyDownTab(i, " ")) =>
                    /\ ActiveSelection' = ActiveSelection
                    /\ "tabChanged" \notin EventNames(published') ]_vars

\* the trigger of the notification panel and of the account menu
TriggerOf(s) == IF s = "notification" THEN "notification-btn" ELSE "user-dropdown-trigger"

\* one activation of the trigger of surface s: a click, or Enter or Space
\* while it has the focus
Activates(s) ==
    \/ Click(TriggerOf(s))
    \/ focus = <<TriggerOf(s)>> /\ (KeyDown("Enter") \/ KeyDown(" "))

\* C18: in every reachable state, also after addTab or refresh have run the
\* binding step again, one activation of the notification-panel trigger or
\* of the account-menu trigger toggles that surface: open ends closed, closed
\* ends open.
C18_TriggerToggles ==
    [][ \A s \in {"notification", "user"} :
            Activates(s) => open'[s] = ~open[s] ]_vars

\* the event a surface publishes when it is closed
ClosedEvent(s) ==
    CASE s = "email" -> "emailModalClosed"
      [] s = "notification" -> "notificationModalClosed"
      [] s = "user" -> "userDropdownClosed"

\* C19: close() on a surface that is already closed is a no-op: it changes
\* neither the open flag, nor the focused element, nor the scroll suspension,
\* and publishes no <surface>Closed event.
C19_CloseIdempotent ==
    [][ \A s \in Surfaces :
            (CloseCall(s) /\ ~open[s]) =>
                /\ open' = open
                /\ focus' = focus
                /\ overflowHidden' = overflowHidden
                /\ ClosedEvent(s) \notin EventNames(published') ]_vars

\* the user closes surface b: by its trigger, or by the notification panel's
\* close button
Closes(b) ==
    \/ Activates(b)
    \/ b = "notification" /\ Click("notification-close-btn")

\* C20: opening the account menu and then the notification panel, or the
\* other way round, through their triggers leaves both open; closing the
\* second-opened surface b then moves the focus to b's own trigger and
\* leaves the other surface open.
C20_SurfacesIndependent ==
    [][ \A b \in {"notification", "user"} :
          \A a \in {"notification", "user"} \ {b} :
            /\ (Click(TriggerOf(b)) /\ open[a] /\ ~open[b]) => (open'[a] /\ open'[b])
            /\ (Closes(b) /\ open[a] /\ open[b]) =>
                    /\ open'[a]
                    /\ focus' = <<TriggerOf(b)>> ]_vars

\* C21: for each of the settings dialog, the notification panel and the
\* account menu, an Escape key event received while that surface is open
\* closes it.
C21_EscapeCloses ==
    [][ \A s \in Surfaces : (KeyDown("Escape") /\ open[s]) => ~open'[s] ]_vars

\* the targets inside a surface that are none of its controls
InsideOnly(s) == IF s = "notification" THEN {"notification-modal"} ELSE {"user-dropdown-menu"}

\* every target inside a surface
Inside(s) == IF s = "notification" THEN InNotificationModal ELSE InUserDropdown

\* C22 as stated: with the account menu and the notification panel both
\* open, a click whose target lies inside one of them and outside the other
\* closes only the surface the click was outside of; the surface that
\* contains the click target stays open.
C22_OutsideClickScoped ==
    [][ \A s \in {"notification", "user"} : \A a \in {"notification", "user"} \ {s} :
          \A target \in Inside(s) :
            (open[s] /\ open[a] /\ Click(target)) => (open'[s] /\ ~open'[a]) ]_vars

\* C22 amended: the same for a click inside one of them on none of its own
\* controls (its trigger, its close button, its menu items).
C22_OutsideClickScopedOffControls ==
    [][ \A s \in {"notification", "user"} : \A a \in {"notification", "user"} \ {s} :
          \A target \in InsideOnly(s) :
            (open[s] /\ open[a] /\ Click(target)) => (open'[s] /\ ~open'[a]) ]_vars

\* C22 witness: a click inside the notification panel has just closed the
\* account menu and left the panel open, with the listeners bound twice.
C22_Witness ==
    /\ input = <<"click", "notification-modal">>
    /\ bound = 2
    /\ open["notification"] /\ ~open["user"]
    /\ published = << OverlayEvent("userDropdownClosed") >>

\* C23: in every reachable state background scroll is suspended if and only
\* if the settings dialog is open.
C23_ScrollSuspendedIffDialogOpen == overflowHidden <=> open["email"]

\* C23 witness: the settings dialog is open, scroll suspended, after a save
\* has closed it once.
C23_Witness ==
    /\ open["email"] /\ overflowHidden
    /\ pending["email"] = 2

\* some listener of the start-timer button sees the timer running
TimerRunning == \E i \in DOMAIN timers : timers[i].isRunning

\* some interval callback is scheduled
TickScheduled == \E i \in DOMAIN timers : timers[i].timerInterval

\* C24: in every state in which the timer is running, also after addTab or
\* refresh were called while it was running, one activation of the
\* start-timer control stops it: afterwards no tick is scheduled (so that no
\* later tick overwrites the label) and the control shows its original label.
C24_OneActivationStops ==
    [][ (TimerRunning /\ ClickStartTimer) =>
            (~TickScheduled' /\ label' = "Start Timer") ]_vars

\* the last step was an activation of the control that stopped the timer
JustStopped ==
    /\ input = <<"click", "start-timer">>
    /\ "timerStopped" \in EventNames(published)
    /\ ~TimerRunning

TwoDigits(n) == Digits[(n \div 10) + 1] \o Digits[(n % 10) + 1]

\* zero-padded HH:MM:SS of s seconds
HHMMSS(s) ==
    TwoDigits(s \div 3600) \o ":" \o TwoDigits((s \div 60) % 60) \o ":" \o TwoDigits(s % 60)

\* C26: for every whole number s of elapsed seconds up to MaxSeconds, the
\* label a timer tick shows is the zero-padded HH:MM:SS with HH = s div 3600,
\* MM = (s div 60) mod 60 and SS = s mod 60.
C26_TickShowsHHMMSS ==
    \A i \in DOMAIN timers :
        (input[1] = "tick" /\ input[2] = i) => label = HHMMSS(now - timers[i].startTime)

\* 61 seconds after the start a tick shows 00:01:01
C26_Witness ==
    /\ input[1] = "tick"
    /\ now - timers[1].startTime = 61
    /\ label = "00:01:01"

\* C27: all side effects of an operation are complete when its handler
\* returns: when the settings dialog or the account menu has been opened, the
\* focus rests on the surface's initial focus target and no callback that
\* moves the focus later is pending.
C27_OpenCompletesBeforeReturn ==
    [][ \A s \in Deferred :
            (~open[s] /\ open'[s]) => (focus' = DeferredTarget(s) /\ pending' = NonePending) ]_vars

\* the logoutClicked and logoutConfirmed events of out, in order
LogoutEvents(out) ==
    LET names == [i \in DOMAIN out |-> out[i].name]
        IsLogout(name) == name \in {"logoutClicked", "logoutConfirmed"}
    IN  SelectSeq(names, IsLogout)

\* what the requests from the i-th on may publish: each its logoutClicked,
\* followed by logoutConfirmed if and only if its confirmation was accepted
RECURSIVE Confirmed(_, _)
Confirmed(answers, i) ==
    IF i > Len(answers) THEN <<>>
    ELSE <<"logoutClicked">> \o (IF answers[i] THEN <<"logoutConfirmed">> ELSE <<>>)
            \o Confirmed(answers, i + 1)

\* how many confirmations were accepted
Accepted(answers) == Cardinality({i \in DOMAIN answers : answers[i]})

\* C28: logoutConfirmed and the reload that follows it happen only after the
\* user accepted the confirmation of the same logout request; a declined
\* request publishes no logoutConfirmed and schedules no reload, and the
\* account menu is closed whatever the answer.
C28_LogoutOnlyAfterConfirmation ==
    [][ \A answers \in Answers(bound) :
            ClickLogout(answers) =>
                /\ ~open'["user"]
                /\ published'[1].name = "userDropdownClosed"
                /\ LogoutEvents(published') = Confirmed(answers, 1)
                /\ reloads' = reloads + Accepted(answers) ]_vars

\* two listeners asked; the first confirmation was declined, the second
\* accepted
C28_Witness ==
    /\ Len(input) = 3
    /\ input[3] = <<FALSE, TRUE>>
    /\ ~open["user"]
    /\ reloads = 1
    /\ LogoutEvents(published) = <<"logoutClicked", "logoutClicked", "logoutConfirmed">>

\* C29: a successful updateTabContent(t, p), one that publishes
\* tabContentUpdated for t, replaces descriptor t by the shallow merge of the
\* old descriptor with p: every top-level field of p takes p's value, every
\* other field keeps its old value, every other descriptor and both row
\* templates are unchanged, and exactly one tabContentUpdated event is
\* published.
C29_UpdateMergesShallowly ==
    [][ \A t \in ConfigIds :
            (/\ input' = <<"call", "updateTabContent">>
             /\ \E i \in DOMAIN published' :
                    published'[i] = Event("tabContentUpdated", t, "", "")) =>
                \A p \in UpdateInputs :
                    UpdateTabContent(t, p) =>
                        LET k == findIndex(config.tabs, t)
                            old == config.tabs[k]
                            new == config'.tabs[k]
                        IN  /\ DOMAIN config'.tabs = DOMAIN config.tabs
                            /\ DOMAIN new = DOMAIN old \cup DOMAIN p
                            /\ \A f \in DOMAIN p : new[f] = p[f]
                            /\ \A f \in DOMAIN old \ DOMAIN p : new[f] = old[f]
                            /\ \A j \in DOMAIN config.tabs \ {k} :
                                    config'.tabs[j] = config.tabs[j]
                            /\ config'.contentRows = config.contentRows
                            /\ config'.sectionRows = config.sectionRows
                            /\ Len(published') = 1 ]_vars

\* C29 witness: the first call updated tab 1 with a title and a country; its
\* address type is the old one and tab 2 is as shipped.
C29_Witness ==
    /\ input = <<"call", "updateTabContent">>
    /\ calls = 1
    /\ published = << Event("tabContentUpdated", 1, "", "") >>
    /\ config.tabs[1] = [ShippedTabs[1] EXCEPT !.title = NewTab(1).title,
                                               !.country = NewTab(1).country]
    /\ config.tabs[2] = ShippedTabs[2]

\* a rendered cell with a heading and a value
IsTemplateCell(cell) == Len(cell) = 3 /\ cell[1] = "item"

\* a rendered main row of a template row of k cells: the k template cells,
\* then max(0, 3 - k) empty cells
PaddedToThree(row, k) ==
    /\ Len(row) = k + Max(0, 3 - k)
    /\ \A c \in 1..k : IsTemplateCell(row[c])
    /\ \A c \in (k + 1)..Len(row) : row[c] = emptyColumnHTML

\* C30: for every main-row template row of length k, the rendered row is
\* the k template cells followed by max(0, 3 - k) empty cells, so every
\* rendered main row has at least 3 cells and a row with k >= 3 gets no
\* padding; section rows are rendered with exactly their template cells.
C30_MainRowsPaddedToThree ==
    phase = "ready" =>
        \A i \in DOMAIN tabPanels :
            LET content == tabPanels[i].content
            IN  /\ DOMAIN content.rows = DOMAIN config.contentRows
                /\ \A r \in DOMAIN content.rows :
                        LET k == Len(config.contentRows[r])
                        IN  /\ PaddedToThree(content.rows[r], k)
                            /\ Len(content.rows[r]) >= 3
                            /\ k >= 3 => Len(content.rows[r]) = k
                /\ DOMAIN content.sectionRows = DOMAIN config.sectionRows
                /\ \A r \in DOMAIN content.sectionRows :
                        /\ Len(content.sectionRows[r]) = Len(config.sectionRows[r])
                        /\ \A c \in DOMAIN content.sectionRows[r] :
                                IsTemplateCell(content.sectionRows[r][c])

\* C30 witness: a template row of one cell rendered with two empty cells
\* after it, next to a template row of four cells rendered as it is, and a
\* section row of one cell rendered as one cell.
C30_Witness ==
    /\ phase = "ready"
    /\ Len(config.contentRows) = 2
    /\ Len(config.contentRows[1]) = 1
    /\ Len(config.contentRows[2]) = 4
    /\ Len(config.sectionRows[1]) = 1
    /\ Len(tabPanels) = 3
    /\ Len(tabPanels[3].content.rows[1]) = 3
    /\ tabPanels[3].content.rows[1][3] = emptyColumnHTML
    /\ Len(tabPanels[3].content.rows[2]) = 4
    /\ Len(tabPanels[3].content.sectionRows[1]) = 1

\* the labels of a rendered panel carry a per-tab prefix
Prefixed(content) == Len(content.sectionTitle) > 1

\* C31: in a rendered panel the labels carry the per-tab prefix for every
\* tab except the first tab in current configuration order, and no prefix
\* for that first tab, also after addTab and removeTab calls that change
\* which tab is first.
C31_OnlyFirstTabUnprefixed ==
    phase = "ready" =>
        \A j \in DOMAIN config.tabs :
            LET p == getElementById(tabPanels, config.tabs[j].id)
            IN  p # 0 => (Prefixed(tabPanels[p].content) <=> j # 1)

\* C32: refresh() preserves the selection: a tab that is active before
\* refresh() and still is a TabDescriptor is active after it, and if no tab
\* was active the first TabDescriptor is active afterwards.
C32_RefreshKeepsSelection ==
    [][ Refresh =>
            /\ (ActiveSelection # null /\ ActiveSelection \in ConfigIds) =>
                    ActiveSelection' = ActiveSelection
            /\ ActiveSelection = null => ActiveSelection' = config.tabs[1].id ]_vars

\* the ids of the triggers and of the panels in the document
TriggerIds == {tabButtons[i].id : i \in DOMAIN tabButtons}
PanelIds == {tabPanels[i].id : i \in DOMAIN tabPanels}

\* C33: in every state reached from the consistent start by addTab,
\* removeTab, updateTabContent, activateTab and refresh calls, successful or
\* failing, the ids with a trigger, the ids with a panel and the ids of the
\* TabDescriptors are the same set, with exactly one trigger and one panel
\* per id.
C33_TriggersPanelsDescriptorsAgree ==
    phase = "ready" =>
        /\ TriggerIds = ConfigIds
        /\ PanelIds = ConfigIds
        /\ Cardinality(TriggerIds) = Len(tabButtons)
        /\ Cardinality(PanelIds) = Len(tabPanels)

\* C34: whenever a call of addTab, removeTab or updateTabContent publishes a
\* dashboardError, for any cause, ConfigStore, the trigger set and the panel
\* set are the same after the call as before it.
C34_FailedCallMutatesNothing ==
    [][ (/\ input' \in {<<"call", "addTab">>, <<"call", "removeTab">>,
                         <<"call", "updateTabContent">>}
         /\ "dashboardError" \in EventNames(published')) => Unmutated ]_vars

\* C35: in every state reached by addTab, removeTab, updateTabContent and
\* refresh calls, the content of the panel for tab id i is PanelRenderer
\* applied to the current TabDescriptor whose id is i.
C35_PanelsRenderTheirDescriptor ==
    phase = "ready" =>
        \A i \in TabIds :
            LET p == getElementById(tabPanels, i)
                k == findIndex(config.tabs, i)
            IN  (p # 0 /\ k # 0 /\ ~populateThrows(config, config.tabs[k])) =>
                    tabPanels[p].content = populateTabContent(config, config.tabs[k])

\* C36: in every state reached by activateTab, addTab, removeTab,
\* updateTabContent and refresh calls, at most one trigger and at most one
\* panel carry the active marker, and when some trigger is active the
\* active panel is the panel of the same tab id.
C36_ActiveMarkersAgree ==
    phase = "ready" =>
        /\ Cardinality(ActiveButtons) <= 1
        /\ Cardinality(ActivePanels) <= 1
        /\ ActiveButtons # {} =>
                \E p \in ActivePanels : tabPanels[p].id = ActiveSelection

\* how many tabChanged events out holds
TabChanges(out) == Cardinality({k \in DOMAIN out : out[k].name = "tabChanged"})

C38_AtMostOneTickTask ==
    Cardinality({i \in DOMAIN timers : timers[i].timerInterval}) <= 1

\* the controls shown with surface s, as focus targets
ControlsOf(s) == {<<target>> : target \in {t \in Targets : ShownWith(t) = s}}

\* C39: for the settings dialog and the account menu, under any
\* interleaving of open, close and the deferred focus callback that open
\* schedules: while the surface stays closed, the focus is not moved onto an
\* element inside it.
C39_NoFocusIntoClosedSurface ==
    [][ \A s \in Deferred :
            (~open[s] /\ ~open'[s] /\ focus \notin ControlsOf(s)) =>
                focus' \notin ControlsOf(s) ]_vars

====
